---- MODULE Spec2Model ----
(***************************************************************************)
(* Model of the config loader, the validators registry and the cross-config *)
(* validations runner of config-validators-architecture.                    *)
(***************************************************************************)
EXTENDS Naturals, Sequences, FiniteSets, TLC

VARIABLES
    VALIDATORS,         \* validators/__init__.py:17, list of (func, required config types)
    reg_status,         \* register_validation: "idle" | "returned" | "raised"
    reg_func,           \* name of the function passed to register_validation
    reg_exc,            \* the exception register_validation raised
    reg_returned,       \* name of the function register_validation returned, "" when none
    reg_before,         \* history: VALIDATORS as it was when register_validation was entered
    run_pc,             \* position of run_validations: "idle" | "running" | "returned" | "raised"
    available_configs,  \* argument of run_validations
    run_should_raise,   \* argument should_raise_on_error of run_validations
    run_index,          \* position of the for loop of _run_validations in VALIDATORS
    validation_errors,  \* local list of _run_validations
    run_exc,            \* the exception that left run_validations
    invoked,            \* history: indexes of the validators invoked by the current run
    returned_lists,     \* history: the list each invoked validator returned, in invocation order
    load_pc,            \* position of ConfigLoader.load: "idle" | "loading" | "returned" | "raised"
    dir_exists,         \* configs_dir.exists()
    dir_files,          \* the *.json files of configs_dir: file name -> what reading it yields
    remaining,          \* files the for loop of _load_configs has not visited yet
    load_should_raise,  \* argument should_raise_on_error of ConfigLoader.load
    configs,            \* ConfigLoader.configs
    _errors,            \* ConfigLoader._errors
    load_exc,           \* the exception that left ConfigLoader.load
    contributed         \* history: file name -> number of errors appended while visiting it

reg_vars == <<VALIDATORS, reg_status, reg_func, reg_exc, reg_returned, reg_before>>
run_vars == <<run_pc, available_configs, run_should_raise, run_index, validation_errors,
              run_exc, invoked, returned_lists>>
load_vars == <<load_pc, dir_exists, dir_files, remaining, load_should_raise, configs,
               _errors, load_exc, contributed>>
vars == <<reg_vars, run_vars, load_vars>>

(***************************************************************************)
(* Bounds                                                                   *)
(***************************************************************************)
MaxValidators == 2      \* registrations kept in VALIDATORS
MaxFeatures == 1        \* features of a FeatureConfig
MaxRefs == 2            \* subfeature_names of one feature
MaxSubfeatures == 1     \* subfeatures of a SubFeatureConfig
MaxViolations == 2      \* field violations of one pydantic.ValidationError
MaxFiles == 2           \* *.json files in configs_dir

SubfeatureNames == {"sub_1", "sub_3"}
FeatureNames == <<"f1", "f2", "f3">>

(***************************************************************************)
(* Generic helpers                                                          *)
(***************************************************************************)
SeqsUpTo(S, lo, hi) == UNION {[1..n -> S] : n \in lo..hi}

Range(s) == {s[i] : i \in DOMAIN s}

Perms(S) == {s \in [1..Cardinality(S) -> S] : \A i, j \in DOMAIN s : i # j => s[i] # s[j]}

RECURSIVE Flatten(_)
Flatten(ss) == IF ss = <<>> THEN <<>> ELSE Head(ss) \o Flatten(Tail(ss))

(***************************************************************************)
(* Config types and instances (src/models)                                  *)
(***************************************************************************)
ConfigTypes == {"FeatureConfig", "SubFeatureConfig", "DatabaseConfig", "MyNewThingConfig"}

\* An entry of features / subfeatures; a subfeature has a name only.
Item(name, subfeature_names) == [name |-> name, subfeature_names |-> subfeature_names]

Instance(type, items) == [type |-> type, items |-> items]

None == Instance("NoneType", <<>>)

\* SingleFeatureConfig: subfeature_names cannot be empty.
SingleFeatureConfigs(i) ==
    {Item(FeatureNames[i], refs) : refs \in SeqsUpTo(SubfeatureNames, 1, MaxRefs)}

\* FeatureConfig: the features list cannot be empty.
FeatureConfigs ==
    {Instance("FeatureConfig", fs) :
        fs \in UNION {{f \in [1..n -> UNION {SingleFeatureConfigs(i) : i \in 1..n}] :
                          \A i \in 1..n : f[i] \in SingleFeatureConfigs(i)} : n \in 1..MaxFeatures}}

SubFeatureConfigs ==
    {Instance("SubFeatureConfig", [i \in DOMAIN names |-> Item(names[i], <<>>)]) :
        names \in SeqsUpTo(SubfeatureNames, 0, MaxSubfeatures)}

InstancesOf(type) ==
    CASE type = "FeatureConfig" -> FeatureConfigs
      [] type = "SubFeatureConfig" -> SubFeatureConfigs
      [] OTHER -> {Instance(type, <<>>)}

\* mapping[key] = value
Store(mapping, key, value) ==
    [k \in DOMAIN mapping \cup {key} |-> IF k = key THEN value ELSE mapping[k]]

\* Every mapping with the given config types as keys, each to an instance of that type.
RECURSIVE ConfigMappingsOver(_)
ConfigMappingsOver(types) ==
    IF types = {} THEN {<<>>}
    ELSE LET type == CHOOSE t \in types : TRUE
         IN {Store(m, type, instance) :
                m \in ConfigMappingsOver(types \ {type}), instance \in InstancesOf(type)}

\* Every mapping from config types to instances of that type.
ConfigMappings == UNION {ConfigMappingsOver(K) : K \in SUBSET ConfigTypes}

(***************************************************************************)
(* Error model (src/exceptions.py)                                          *)
(***************************************************************************)
\* BaseException.__init__: the message and the keyword context, in insertion order.
Error(cls, err_msg, kwargs) == [cls |-> cls, error_msg |-> err_msg, kwargs |-> kwargs]

\* BaseException.__str__
Str(err) == <<"ERROR: ", err.error_msg, "\n">> \o Flatten([i \in DOMAIN err.kwargs |->
                <<err.kwargs[i][1], "=", err.kwargs[i][2]>>])

Kwarg(err, name) == {err.kwargs[i][2] : i \in {j \in DOMAIN err.kwargs : err.kwargs[j][1] = name}}

\* An exception leaving a call: has_exceptions says whether it has an `exceptions` attribute.
Raised(cls, message, has_exceptions, exceptions) ==
    [cls |-> cls, message |-> message, has_exceptions |-> has_exceptions, exceptions |-> exceptions]

NoException == Raised("None", <<>>, FALSE, <<>>)

\* BaseException.group_errors: cls(msg), msg joining the members' renderings.
group_errors(errors) ==
    Raised("BaseException", [i \in DOMAIN errors |-> Str(errors[i])], FALSE, <<>>)

\* A group that keeps the first of the errors only.
BaseExceptionGroupOfFirst(message, exceptions) ==
    Raised("BaseExceptionGroup", <<message>>, TRUE, SubSeq(exceptions, 1, 1))

\* BaseExceptionGroup(message, exceptions)
BaseExceptionGroup(message, exceptions) ==
    Raised("BaseExceptionGroup", <<message>>, TRUE, exceptions)

(***************************************************************************)
(* Validation functions offered to register_validation                      *)
(***************************************************************************)
Param(name, annotation) == [name |-> name, annotation |-> annotation]

\* body: "referential" computes the undefined subfeatures, "fixed" returns the
\* list `returns`, "raises" leaves with an exception of its own.
Func(name, params, body, returns) ==
    [name |-> name, params |-> params, body |-> body, returns |-> returns]

BaseCrossConfigValidationError(err_msg, kwargs) ==
    Error("BaseCrossConfigValidationError", err_msg, kwargs)

ReferentialValidator ==
    Func("validate_feature_not_reference_non_existant_subfeature",
         <<Param("feature_config", "FeatureConfig"), Param("subfeature_config", "SubFeatureConfig")>>,
         "referential", <<>>)

ValidValidationFunctions ==
    { ReferentialValidator,
      Func("validate_database", <<Param("database_config", "DatabaseConfig")>>, "fixed",
           <<BaseCrossConfigValidationError("Bad host", <<<<"field", "host">>>>),
             BaseCrossConfigValidationError("Bad port", <<<<"field", "port">>>>)>>),
      Func("validate_thing_feature",
           <<Param("my_new_thing_config", "MyNewThingConfig"), Param("feature_config", "FeatureConfig")>>,
           "fixed", <<BaseCrossConfigValidationError("Unknown status", <<<<"status", "s1">>>>)>>),
      Func("validate_nothing", <<>>, "fixed",
           <<BaseCrossConfigValidationError("Always reported", <<>>)>>),
      Func("validate_crashing", <<Param("database_config", "DatabaseConfig")>>, "raises", <<>>) }

\* int is a class that is not a config; "" is inspect.Parameter.empty (no
\* annotation), a class too; list[str] is a generic alias, not a class.
InvalidValidationFunctions ==
    { Func("validation_with_non_config_objs_in_signature", <<Param("num", "int")>>, "fixed", <<>>),
      Func("validation_with_two_invalid",
           <<Param("feature_config", "FeatureConfig"), Param("count", "int"), Param("extra", "")>>,
           "fixed", <<>>),
      Func("validation_with_generic_alias",
           <<Param("feature_config", "FeatureConfig"), Param("names", "list[str]")>>, "fixed", <<>>),
      Func("validation_with_int_and_generic_alias",
           <<Param("num", "int"), Param("names", "list[str]")>>, "fixed", <<>>) }

ValidationFunctions == ValidValidationFunctions \cup InvalidValidationFunctions

FuncNamed(name) == CHOOSE f \in ValidationFunctions : f.name = name

(***************************************************************************)
(* register_validation (src/cross_config_validations/validators/__init__.py) *)
(***************************************************************************)
\* issubclass(x, BaseConfig) raises TypeError when x is not a class.
IsClass(annotation) == annotation \notin {"list[str]"}

\* issubclass(annotation, BaseConfig), for an annotation that is a class.
issubclass(annotation) == annotation \in ConfigTypes

\* any(not issubclass(param.annotation, BaseConfig) for param in ...): the
\* generator is consumed left to right and stops at the first true element.
RECURSIVE AnyNotSubclass(_)
AnyNotSubclass(params) ==
    IF params = <<>> THEN "False"
    ELSE IF ~IsClass(Head(params).annotation) THEN "TypeError"
    ELSE IF ~issubclass(Head(params).annotation) THEN "True"
    ELSE AnyNotSubclass(Tail(params))

\* [param for param in ... if not issubclass(param.annotation, BaseConfig)]
InvalidParameters(params) ==
    SelectSeq(params, LAMBDA param : ~issubclass(param.annotation))

RegistrationError(cls, func, invalid_parameters) ==
    [cls |-> cls, func |-> func, invalid_parameters |-> invalid_parameters]

NoRegistrationError == RegistrationError("None", "", <<>>)

\* (func, tuple(param.annotation for param in validation_parameters.values()))
Registration(func) ==
    [func |-> func.name, required |-> [i \in DOMAIN func.params |-> func.params[i].annotation]]

\* The exception register_validation(func) raises, NoRegistrationError when it returns.
RegistrationOutcome(func) ==
    CASE AnyNotSubclass(func.params) = "TypeError" -> RegistrationError("TypeError", "", <<>>)
      [] AnyNotSubclass(func.params) = "True" ->
            IF \E i \in DOMAIN func.params : ~IsClass(func.params[i].annotation)
            THEN RegistrationError("TypeError", "", <<>>)
            ELSE RegistrationError("InvalidValidationFunctionSignature", func.name,
                                   [i \in DOMAIN InvalidParameters(func.params) |->
                                        InvalidParameters(func.params)[i].name])
      [] OTHER -> NoRegistrationError

\* A registry that puts the new registration in front of the earlier ones.
RegistryWithNewFirst(registry, func, outcome) ==
    IF outcome = NoRegistrationError THEN <<Registration(func)>> \o registry ELSE registry

\* VALIDATORS after register_validation(func) with the given outcome.
RegistryAfter(registry, func, outcome) ==
    IF outcome = NoRegistrationError THEN Append(registry, Registration(func)) ELSE registry

\* No call is in progress and no result is held by a caller.
Idle == reg_status = "idle" /\ run_pc = "idle" /\ load_pc = "idle"

register_validation(func) ==
    /\ Idle
    /\ RegistrationOutcome(func) = NoRegistrationError => Len(VALIDATORS) < MaxValidators
    /\ reg_before' = VALIDATORS
    /\ reg_func' = func.name
    /\ reg_exc' = RegistrationOutcome(func)
    /\ reg_returned' = IF RegistrationOutcome(func) = NoRegistrationError THEN func.name ELSE ""
    /\ reg_status' = IF RegistrationOutcome(func) = NoRegistrationError THEN "returned" ELSE "raised"
    /\ VALIDATORS' = RegistryAfter(VALIDATORS, func, RegistrationOutcome(func))
    /\ UNCHANGED <<run_vars, load_vars>>

RegisterValidation == \E func \in ValidationFunctions : register_validation(func)

\* The caller has the function back, or has handled the exception.
RegistrationDone ==
    /\ reg_status \in {"returned", "raised"}
    /\ reg_status' = "idle"
    /\ reg_func' = ""
    /\ reg_exc' = NoRegistrationError
    /\ reg_returned' = ""
    /\ reg_before' = <<>>
    /\ UNCHANGED <<VALIDATORS, run_vars, load_vars>>

(***************************************************************************)
(* The referential-integrity validator                                      *)
(* (src/cross_config_validations/feature_subfeature_validator.py)           *)
(***************************************************************************)
AllSubfeatureNames(sc) == {sc.items[i].name : i \in DOMAIN sc.items}

AllReferencedSubfeatures(fc) == UNION {Range(fc.items[i].subfeature_names) : i \in DOMAIN fc.items}

UndefinedSubfeatures(fc, sc) == AllReferencedSubfeatures(fc) \ AllSubfeatureNames(sc)

UndefinedSubfeatureError(undefined_subfeature) ==
    BaseCrossConfigValidationError("Referenced subfeature is undefined",
                                   <<<<"undefined_subfeature", undefined_subfeature>>>>)

\* A validator that reports every reference to an undefined subfeature, repeated or not.
validate_every_reference(fc, sc) ==
    {SelectSeq([i \in DOMAIN refs |-> UndefinedSubfeatureError(refs[i])],
               LAMBDA err : Kwarg(err, "undefined_subfeature") \cap AllSubfeatureNames(sc) = {}) :
        refs \in {Flatten([i \in DOMAIN fc.items |-> fc.items[i].subfeature_names])}}

\* The lists the validator can return: a set is iterated in no fixed order.
validate_feature_not_reference_non_existant_subfeature(fc, sc) ==
    {[i \in DOMAIN order |-> UndefinedSubfeatureError(order[i])] :
        order \in Perms(UndefinedSubfeatures(fc, sc))}

(***************************************************************************)
(* run_validations (src/cross_config_validations/validations_runner.py)     *)
(***************************************************************************)
\* available_configs.get(config_type, None)
Get(mapping, config_type) ==
    IF config_type \in DOMAIN mapping THEN mapping[config_type] ELSE None

ValidationArgs(mapping, required_configs) ==
    [i \in DOMAIN required_configs |-> Get(mapping, required_configs[i])]

\* A runner that looks for a missing config at the first argument only.
NoneInFirstOnly(validation_args) == validation_args # <<>> /\ validation_args[1] = None

\* None in validation_args
NoneIn(validation_args) == \E i \in DOMAIN validation_args : validation_args[i] = None

CallResult(raised, errors) == [raised |-> raised, errors |-> errors]

\* validation_func(*validation_args): the results the call can have.
Call(func, validation_args) ==
    CASE func.body = "raises" -> {CallResult(TRUE, <<>>)}
      [] func.body = "fixed" -> {CallResult(FALSE, func.returns)}
      [] OTHER ->
            IF NoneIn(validation_args)
            THEN {CallResult(TRUE, <<>>)}
            ELSE {CallResult(FALSE, errors) :
                     errors \in validate_feature_not_reference_non_existant_subfeature(
                                   validation_args[1], validation_args[2])}

\* A runner that puts the new errors in front of the accumulated ones.
ExtendInFront(errors, more) == more \o errors

\* validation_errors.extend(...)
Extend(errors, more) == errors \o more

\* run_validations is entered: errors = _run_validations(available_configs=...)
RunStart(mapping, should_raise_on_error) ==
    /\ Idle
    /\ run_pc' = "running"
    /\ available_configs' = mapping
    /\ run_should_raise' = should_raise_on_error
    /\ run_index' = 1
    /\ validation_errors' = <<>>
    /\ run_exc' = NoException
    /\ invoked' = <<>>
    /\ returned_lists' = <<>>
    /\ UNCHANGED <<reg_vars, load_vars>>

\* One iteration of `for validation_func, required_configs in VALIDATORS`.
RunStep ==
    /\ run_pc = "running"
    /\ run_index <= Len(VALIDATORS)
    /\ LET validation_func == FuncNamed(VALIDATORS[run_index].func)
           validation_args == ValidationArgs(available_configs, VALIDATORS[run_index].required)
       IN IF NoneIn(validation_args)
          THEN /\ run_index' = run_index + 1
               /\ UNCHANGED <<run_pc, validation_errors, run_exc, invoked, returned_lists>>
          ELSE \E result \in Call(validation_func, validation_args) :
                  /\ invoked' = Append(invoked, run_index)
                  /\ IF result.raised
                     THEN /\ run_pc' = "raised"
                          /\ run_exc' = Raised("RuntimeError", <<validation_func.name>>, FALSE, <<>>)
                          /\ UNCHANGED <<run_index, validation_errors, returned_lists>>
                     ELSE /\ validation_errors' = Extend(validation_errors, result.errors)
                          /\ returned_lists' = Append(returned_lists, result.errors)
                          /\ run_index' = run_index + 1
                          /\ UNCHANGED <<run_pc, run_exc>>
    /\ UNCHANGED <<available_configs, run_should_raise, reg_vars, load_vars>>

\* A caller-facing toggle that is ignored: any error raises.
RaiseOnAnyError(should_raise_on_error, errors) == errors # <<>>

\* should_raise_on_error and errors
ShouldRaise(should_raise_on_error, errors) == should_raise_on_error /\ errors # <<>>

\* The loop is over: raise BaseException.group_errors(errors) or return errors.
RunFinish ==
    /\ run_pc = "running"
    /\ run_index > Len(VALIDATORS)
    /\ IF ShouldRaise(run_should_raise, validation_errors)
       THEN /\ run_pc' = "raised"
            /\ run_exc' = group_errors(validation_errors)
       ELSE /\ run_pc' = "returned"
            /\ run_exc' = NoException
    /\ UNCHANGED <<available_configs, run_should_raise, run_index, validation_errors, invoked,
                   returned_lists, reg_vars, load_vars>>

\* The caller has used the result (main.py prints the errors) and holds nothing of the call.
RunResultConsumed ==
    /\ run_pc \in {"returned", "raised"}
    /\ run_pc' = "idle"
    /\ available_configs' = <<>>
    /\ run_should_raise' = FALSE
    /\ run_index' = 1
    /\ validation_errors' = <<>>
    /\ run_exc' = NoException
    /\ invoked' = <<>>
    /\ returned_lists' = <<>>
    /\ UNCHANGED <<reg_vars, load_vars>>

RunValidations ==
    /\ Idle
    /\ \E mapping \in ConfigMappings, should_raise_on_error \in BOOLEAN :
          RunStart(mapping, should_raise_on_error)

(***************************************************************************)
(* ConfigLoader (src/config_loader.py)                                      *)
(***************************************************************************)
\* _MODEL_REGISTRY as the register_config_model decorators of src/models fill it.
_MODEL_REGISTRY ==
    [filename \in {"FeatureConfig.json", "SubFeatureConfig.json", "DatabaseConfig.json",
                   "MyNewThingConfig.json"} |->
        CASE filename = "FeatureConfig.json" -> "FeatureConfig"
          [] filename = "SubFeatureConfig.json" -> "SubFeatureConfig"
          [] filename = "DatabaseConfig.json" -> "DatabaseConfig"
          [] OTHER -> "MyNewThingConfig"]

\* The i-th element of pydantic's e.errors(): a message and a location.
Violation(i) == [msg |-> "Value error, subfeature_names cannot be empty.", loc |-> ToString(i)]

\* e.errors() of a pydantic.ValidationError: never empty.
ViolationLists == {[i \in 1..k |-> Violation(i)] : k \in 1..MaxViolations}

\* What json.loads(file.read_text()) followed by config_cls(**config_raw_data) yields.
FileOutcome(kind, instance, violations, cause) ==
    [kind |-> kind, instance |-> instance, violations |-> violations, cause |-> cause]

FileOutcomes(filename) ==
    IF filename \notin DOMAIN _MODEL_REGISTRY
    THEN {FileOutcome("valid", None, <<>>, "")}
    ELSE {FileOutcome("valid", instance, <<>>, "") : instance \in InstancesOf(_MODEL_REGISTRY[filename])}
         \cup {FileOutcome("schema_invalid", None, violations, "") :
                  violations \in ViolationLists}
         \cup {FileOutcome("exception", None, <<>>, cause) : cause \in {"JSONDecodeError", "TypeError"}}

FileNames == DOMAIN _MODEL_REGISTRY \cup {"Unrelated.json"}

\* The directories: at most MaxFiles *.json files, each with what reading it yields.
RECURSIVE DirectoriesOver(_)
DirectoriesOver(filenames) ==
    IF filenames = {} THEN {<<>>}
    ELSE LET filename == CHOOSE f \in filenames : TRUE
         IN {Store(d, filename, outcome) :
                d \in DirectoriesOver(filenames \ {filename}), outcome \in FileOutcomes(filename)}

Directories ==
    UNION {DirectoriesOver(F) : F \in {G \in SUBSET FileNames : Cardinality(G) <= MaxFiles}}

BaseSingleConfigValidationError(err_msg, config_file, location) ==
    Error("BaseSingleConfigValidationError", err_msg,
          <<<<"config_file", config_file>>, <<"location", location>>>>)

\* ConfigCreationFailedError(err_msg=str(e), error=e): the message and the only
\* attribute come from the exception; file.name is not passed.
ConfigCreationFailedError(filename, cause) ==
    Error("ConfigCreationFailedError", cause, <<<<"error", cause>>>>)

\* A loader that reports the first violation of a file only.
FirstSingleConfigError(filename, violations) ==
    <<BaseSingleConfigValidationError(violations[1].msg, filename, violations[1].loc)>>

\* The list _errors is extended with: one error per element of e.errors().
SingleConfigErrors(filename, violations) ==
    [i \in DOMAIN violations |->
        BaseSingleConfigValidationError(violations[i].msg, filename, violations[i].loc)]

\* The errors the except clauses of _load_configs add for one file.
ErrorsFor(filename, outcome) ==
    CASE outcome.kind = "schema_invalid" -> SingleConfigErrors(filename, outcome.violations)
      [] outcome.kind = "exception" -> <<ConfigCreationFailedError(filename, outcome.cause)>>
      [] OTHER -> <<>>

\* A loader that gives up at the first file that fails.
RemainingUnlessFailed(files, filename, outcome) ==
    IF outcome.kind = "valid" THEN files \ {filename} ELSE {}

\* The for loop goes on with the next file, whatever happened to this one.
RemainingAfter(files, filename, outcome) == files \ {filename}

\* file.name not in _MODEL_REGISTRY
Unrecognized(filename) == filename \notin DOMAIN _MODEL_REGISTRY

DirectoryMissing ==
    BaseExceptionGroup("Directory specified as configs_dir argument does not exist",
        <<Error("ConfigCreationFailedError",
                "Directory specified as configs_dir argument does not exist",
                <<<<"configs_dir", "configs_dir">>>>)>>)

\* ConfigLoader.load up to the loop of _load_configs.
LoadStart(exists, files, should_raise_on_error) ==
    /\ Idle
    /\ dir_exists' = exists
    /\ dir_files' = files
    /\ load_should_raise' = should_raise_on_error
    /\ configs' = <<>>
    /\ _errors' = <<>>
    /\ contributed' = [f \in DOMAIN files |-> 0]
    /\ IF ~exists
       THEN /\ load_pc' = "raised"
            /\ load_exc' = DirectoryMissing
            /\ remaining' = {}
       ELSE /\ load_pc' = "loading"
            /\ load_exc' = NoException
            /\ remaining' = DOMAIN files
    /\ UNCHANGED <<reg_vars, run_vars>>

Load ==
    /\ Idle
    /\ \E exists \in BOOLEAN, files \in Directories, should_raise_on_error \in BOOLEAN :
          /\ ~exists => files = <<>>
          /\ LoadStart(exists, files, should_raise_on_error)

\* One iteration of `for file in self.configs_dir.glob("*.json")`, in directory order.
LoadStep ==
    /\ load_pc = "loading"
    /\ \E file \in remaining :
          /\ IF Unrecognized(file)
             THEN /\ remaining' = remaining \ {file}
                  /\ UNCHANGED <<configs, _errors, contributed>>
             ELSE /\ remaining' = RemainingAfter(remaining, file, dir_files[file])
                  /\ configs' = IF dir_files[file].kind = "valid"
                                THEN Store(configs, _MODEL_REGISTRY[file], dir_files[file].instance)
                                ELSE configs
                  /\ _errors' = Extend(_errors, ErrorsFor(file, dir_files[file]))
                  /\ contributed' = [contributed EXCEPT
                                        ![file] = @ + Len(ErrorsFor(file, dir_files[file]))]
    /\ UNCHANGED <<load_pc, dir_exists, dir_files, load_should_raise, load_exc, reg_vars, run_vars>>

\* load_configs after _load_configs: raise the group or return self.
LoadFinish ==
    /\ load_pc = "loading"
    /\ remaining = {}
    /\ IF ShouldRaise(load_should_raise, _errors)
       THEN /\ load_pc' = "raised"
            /\ load_exc' = BaseExceptionGroup(
                               "Configurations load process resulted with the following errors:", _errors)
       ELSE /\ load_pc' = "returned"
            /\ load_exc' = NoException
    /\ UNCHANGED <<dir_exists, dir_files, remaining, load_should_raise, configs, _errors,
                   contributed, reg_vars, run_vars>>

\* The caller has used the loader (main.py prints its errors) and drops it.
LoaderDropped ==
    /\ load_pc \in {"returned", "raised"}
    /\ load_pc' = "idle"
    /\ dir_exists' = TRUE
    /\ dir_files' = <<>>
    /\ remaining' = {}
    /\ load_should_raise' = FALSE
    /\ configs' = <<>>
    /\ _errors' = <<>>
    /\ load_exc' = NoException
    /\ contributed' = <<>>
    /\ UNCHANGED <<reg_vars, run_vars>>

(***************************************************************************)
(* Specifications                                                           *)
(***************************************************************************)
Init ==
    /\ VALIDATORS = <<>>
    /\ reg_status = "idle"
    /\ reg_func = ""
    /\ reg_exc = NoRegistrationError
    /\ reg_returned = ""
    /\ reg_before = <<>>
    /\ run_pc = "idle"
    /\ available_configs = <<>>
    /\ run_should_raise = FALSE
    /\ run_index = 1
    /\ validation_errors = <<>>
    /\ run_exc = NoException
    /\ invoked = <<>>
    /\ returned_lists = <<>>
    /\ load_pc = "idle"
    /\ dir_exists = TRUE
    /\ dir_files = <<>>
    /\ remaining = {}
    /\ load_should_raise = FALSE
    /\ configs = <<>>
    /\ _errors = <<>>
    /\ load_exc = NoException
    /\ contributed = <<>>

\* The process is single-threaded: one call at a time, in any order.
Next ==
    \/ RegisterValidation
    \/ RegistrationDone
    \/ RunValidations
    \/ RunStep
    \/ RunFinish
    \/ RunResultConsumed
    \/ Load
    \/ LoadStep
    \/ LoadFinish
    \/ LoaderDropped

Spec == Init /\ [][Next]_vars

(***************************************************************************)
(* Properties of the validations runner                                     *)
(***************************************************************************)
\* The validator registered at position i has all its required config types in the mapping.
RequiredPresent(i) ==
    \A j \in DOMAIN VALIDATORS[i].required : VALIDATORS[i].required[j] \in DOMAIN available_configs

\* The positions up to n whose required config types are all present, ascending.
RECURSIVE SatisfiedUpTo(_)
SatisfiedUpTo(n) ==
    IF n = 0 THEN <<>>
    ELSE IF RequiredPresent(n) THEN Append(SatisfiedUpTo(n - 1), n) ELSE SatisfiedUpTo(n - 1)

\* C1: during and after a run of run_validations, a registered validator one of
\* whose required config types is not a key of the configs mapping has not been
\* invoked, and every accumulated error was returned by an invoked validator.
C1_SkippedWhenRequiredAbsent ==
    run_pc # "idle" =>
        /\ \A i \in 1..Len(VALIDATORS) : ~RequiredPresent(i) => i \notin Range(invoked)
        /\ Len(returned_lists) <= Len(invoked)
        /\ validation_errors = Flatten(returned_lists)

C1_Witness ==
    /\ run_pc = "returned"
    /\ validation_errors # <<>>
    /\ \E i \in 1..Len(VALIDATORS) : ~RequiredPresent(i) /\ i \notin Range(invoked)

\* C2: in default mode run_validations returns only after the whole registry was
\* gone through, it has invoked exactly the validators whose required types are
\* all present, in registration order, and the returned list is the
\* concatenation of the lists they returned, in that order.
C2_ReturnsConcatenationInRegistrationOrder ==
    (run_pc = "returned" /\ ~run_should_raise) =>
        /\ run_index = Len(VALIDATORS) + 1
        /\ invoked = SatisfiedUpTo(Len(VALIDATORS))
        /\ Len(returned_lists) = Len(invoked)
        /\ \A k \in DOMAIN returned_lists :
              FuncNamed(VALIDATORS[invoked[k]].func).body = "fixed" =>
                  returned_lists[k] = FuncNamed(VALIDATORS[invoked[k]].func).returns
        /\ validation_errors = Flatten(returned_lists)

C2_Witness ==
    /\ run_pc = "returned"
    /\ ~run_should_raise
    /\ Len(invoked) = 2
    /\ returned_lists[1] # <<>>
    /\ returned_lists[2] # <<>>
    /\ returned_lists[1] # returned_lists[2]

(***************************************************************************)
(* Properties of register_validation                                        *)
(***************************************************************************)
\* The names of the parameters of func whose declared type is not a config type.
OffendingParameters(func) ==
    {func.params[i].name : i \in {j \in DOMAIN func.params : func.params[j].annotation \notin ConfigTypes}}

\* C3: register_validation called with a function that has a parameter whose
\* declared type is not a config type raises InvalidValidationFunctionSignature
\* naming the function and the offending parameters, and leaves VALIDATORS as it was.
C3_RejectsNonConfigParameter ==
    (reg_status # "idle" /\ OffendingParameters(FuncNamed(reg_func)) # {}) =>
        /\ reg_status = "raised"
        /\ reg_exc.cls = "InvalidValidationFunctionSignature"
        /\ reg_exc.func = reg_func
        /\ Range(reg_exc.invalid_parameters) = OffendingParameters(FuncNamed(reg_func))
        /\ VALIDATORS = reg_before

\* The part of C3 the code keeps: the registry is left as it was.
C3_RegistryUntouchedOnRejection ==
    (reg_status # "idle" /\ OffendingParameters(FuncNamed(reg_func)) # {}) =>
        /\ reg_status = "raised"
        /\ VALIDATORS = reg_before

(***************************************************************************)
(* Properties of strict mode                                                *)
(***************************************************************************)
\* run_validations got to the end of the registry.
RunCompleted == run_pc \in {"returned", "raised"} /\ run_index = Len(VALIDATORS) + 1

\* C4: run_validations with should_raise_on_error fails, when the accumulated
\* list is not empty, with one error that exposes the accumulated errors as its
\* sequence of member errors, and returns normally when the list is empty.
C4_StrictRunExposesMembers ==
    (RunCompleted /\ run_should_raise) =>
        IF validation_errors # <<>>
        THEN /\ run_pc = "raised"
             /\ run_exc.has_exceptions
             /\ run_exc.exceptions = validation_errors
        ELSE run_pc = "returned"

\* The part of C4 the code keeps: it raises exactly when the list is not empty,
\* and the message of the raised error renders every member.
C4_StrictRunRaisesOnErrors ==
    (RunCompleted /\ run_should_raise) =>
        IF validation_errors # <<>>
        THEN /\ run_pc = "raised"
             /\ run_exc.message = [i \in DOMAIN validation_errors |-> Str(validation_errors[i])]
        ELSE run_pc = "returned"

(***************************************************************************)
(* Properties of the config loader                                          *)
(***************************************************************************)
\* load_configs is over, by returning the loader or by raising.
LoadCompleted == load_pc \in {"returned", "raised"} /\ dir_exists

Recognized == DOMAIN dir_files \cap DOMAIN _MODEL_REGISTRY

\* The number of failures reading the file holds: one per field violation, one for any other exception.
FailuresOf(filename) ==
    CASE dir_files[filename].kind = "schema_invalid" -> Len(dir_files[filename].violations)
      [] dir_files[filename].kind = "exception" -> 1
      [] OTHER -> 0

RECURSIVE TotalFailures(_)
TotalFailures(files) ==
    IF files = {} THEN 0
    ELSE LET f == CHOOSE g \in files : TRUE IN FailuresOf(f) + TotalFailures(files \ {f})

\* The positions of _errors holding a Single-Config Error of the file.
SingleConfigErrorsOf(filename) ==
    {i \in DOMAIN _errors : /\ _errors[i].cls = "BaseSingleConfigValidationError"
                            /\ Kwarg(_errors[i], "config_file") = {filename}}

\* The positions of _errors holding a Config-Creation Error with the file's cause.
CreationErrorsOf(filename) ==
    {i \in DOMAIN _errors : /\ _errors[i].cls = "ConfigCreationFailedError"
                            /\ Kwarg(_errors[i], "error") = {dir_files[filename].cause}}

\* The error names the file: in its message or in one of its context attributes.
CarriesFileName(err, filename) ==
    err.error_msg = filename \/ \E i \in DOMAIN err.kwargs : err.kwargs[i][2] = filename

\* C5: in strict mode the loader decides once every file was visited: with any
\* error collected it raises one group whose members are all the collected
\* errors, one per failure of every file, and with none it returns the loader.
C5_StrictLoadRaisesAllErrors ==
    (LoadCompleted /\ load_should_raise) =>
        /\ remaining = {}
        /\ Len(_errors) = TotalFailures(Recognized)
        /\ IF _errors # <<>>
           THEN /\ load_pc = "raised"
                /\ load_exc.cls = "BaseExceptionGroup"
                /\ load_exc.has_exceptions
                /\ load_exc.exceptions = _errors
           ELSE /\ load_pc = "returned"
                /\ load_exc = NoException

C5_Witness ==
    /\ LoadCompleted
    /\ load_should_raise
    /\ load_pc = "raised"
    /\ Len(load_exc.exceptions) >= 3
    /\ \E f, g \in Recognized : f # g /\ FailuresOf(f) > 0 /\ FailuresOf(g) > 0

\* C6: after load, a recognized file whose construction failed schema validation
\* with K violations has at least K Single-Config Errors carrying its name as
\* config_file, and its config type is not a key of configs.
C6_OneErrorPerViolation ==
    LoadCompleted =>
        \A f \in Recognized :
            dir_files[f].kind = "schema_invalid" =>
                /\ Cardinality(SingleConfigErrorsOf(f)) >= Len(dir_files[f].violations)
                /\ _MODEL_REGISTRY[f] \notin DOMAIN configs

C6_Witness ==
    /\ LoadCompleted
    /\ \E f \in Recognized : /\ dir_files[f].kind = "schema_invalid"
                             /\ Len(dir_files[f].violations) = 2
                             /\ Cardinality(SingleConfigErrorsOf(f)) = 2
    /\ DOMAIN configs # {}

\* C7: after load every recognized file was processed, whatever happened to the
\* others and in whatever order: its instance is stored in configs or it has
\* contributed at least one error.
C7_EveryRecognizedFileProcessed ==
    LoadCompleted =>
        \A f \in Recognized :
            \/ /\ dir_files[f].kind = "valid"
               /\ _MODEL_REGISTRY[f] \in DOMAIN configs
               /\ configs[_MODEL_REGISTRY[f]] = dir_files[f].instance
            \/ /\ dir_files[f].kind # "valid"
               /\ contributed[f] >= 1
               /\ SingleConfigErrorsOf(f) \cup CreationErrorsOf(f) # {}

C7_Witness ==
    /\ LoadCompleted
    /\ \E f, g \in Recognized : /\ dir_files[f].kind = "exception"
                                /\ dir_files[g].kind = "valid"
                                /\ _errors # <<>>
                                /\ _MODEL_REGISTRY[g] \in DOMAIN configs

\* C10: after load, a recognized file whose reading, decoding or construction
\* failed with a non-schema exception has exactly one Config-Creation Error,
\* and that error carries the file name and the underlying cause.
C10_CreationErrorCarriesFileAndCause ==
    LoadCompleted =>
        \A f \in Recognized :
            dir_files[f].kind = "exception" =>
                Cardinality({i \in CreationErrorsOf(f) : CarriesFileName(_errors[i], f)}) = 1

Referenced(fc, name) ==
    \E i \in DOMAIN fc.items : \E j \in DOMAIN fc.items[i].subfeature_names :
        fc.items[i].subfeature_names[j] = name

Defined(sc, name) == \E i \in DOMAIN sc.items : sc.items[i].name = name

\* The positions of errors that carry the name as undefined_subfeature.
ErrorsNaming(errors, name) ==
    {i \in DOMAIN errors : /\ errors[i].cls = "BaseCrossConfigValidationError"
                           /\ errors[i].kwargs = <<<<"undefined_subfeature", name>>>>}

\* C9: every list the referential-integrity validator returned to the runner
\* holds exactly one Cross-Config-Validation Error for each subfeature name that
\* some feature references and the subfeature config does not define, carrying
\* that name as undefined_subfeature, and nothing else.
C9_OneErrorPerUndefinedSubfeature ==
    \A k \in DOMAIN returned_lists :
        VALIDATORS[invoked[k]].func = ReferentialValidator.name =>
            LET fc == available_configs["FeatureConfig"]
                sc == available_configs["SubFeatureConfig"]
                missing == {n \in SubfeatureNames : Referenced(fc, n) /\ ~Defined(sc, n)}
            IN /\ \A n \in missing : Cardinality(ErrorsNaming(returned_lists[k], n)) = 1
               /\ Len(returned_lists[k]) = Cardinality(missing)

C9_Witness ==
    \E k \in DOMAIN returned_lists :
        /\ VALIDATORS[invoked[k]].func = ReferentialValidator.name
        /\ Len(returned_lists[k]) = 1
        /\ Len(available_configs["FeatureConfig"].items[1].subfeature_names) = 2
        /\ available_configs["FeatureConfig"].items[1].subfeature_names[1]
              = available_configs["FeatureConfig"].items[1].subfeature_names[2]

(***************************************************************************)
(* Frame of the validators registry                                         *)
(***************************************************************************)
\* The entry is (func, the config types of func's parameters in declared order).
IsRegistrationOf(entry, func) ==
    /\ entry.func = func.name
    /\ Len(entry.required) = Len(func.params)
    /\ \A i \in 1..Len(func.params) : entry.required[i] = func.params[i].annotation

\* The registry went from `before` to `after` by one entry added at the end.
OneAppended(before, after) ==
    /\ Len(after) = Len(before) + 1
    /\ \A i \in 1..Len(before) : after[i] = before[i]

\* C11: in every step, a register_validation that returns has added exactly one
\* entry, (the function, its parameters' config types in declared order), at the
\* end of VALIDATORS, with the earlier entries as they were, and has returned the
\* function it was given; every other step, the steps of run_validations among
\* them, leaves VALIDATORS unchanged, so no entry is ever removed or reordered.
C11_RegistryOnlyGrowsByAppend ==
    [][ IF reg_status = "idle" /\ reg_status' = "returned"
        THEN /\ OneAppended(VALIDATORS, VALIDATORS')
             /\ IsRegistrationOf(VALIDATORS'[Len(VALIDATORS')], FuncNamed(reg_func'))
             /\ reg_returned' = reg_func'
        ELSE VALIDATORS' = VALIDATORS ]_vars

C11_Witness ==
    /\ reg_status = "returned"
    /\ Len(VALIDATORS) = 2
    /\ reg_before = <<VALIDATORS[1]>>
    /\ VALIDATORS[1] # VALIDATORS[2]
    /\ VALIDATORS[2].required = <<"MyNewThingConfig", "FeatureConfig">>
    /\ reg_returned = VALIDATORS[2].func

====
